---- MODULE Spec2Model ----
(***************************************************************************)
(* TradeSenpaii, hypothesis engine.                                        *)
(*                                                                         *)
(* The streaming client (HypothesisPage.submit, kept in                    *)
(* app/frontend/src/components/PriceChart.jsx lines 99-273) with its       *)
(* stream decoder, the synchronous page of src/unnamed/part_002, and the   *)
(* pipeline executor and encoder described by spec.md 4.1, 4.2 and 5.      *)
(*                                                                         *)
(* JavaScript strings are sequences of tokens: "" is << >>, a token stands *)
(* for a run of characters without a line feed, and "\n" is always a       *)
(* token of its own.  null / undefined of a nullable state variable is     *)
(* << >>, a value v is << v >>.                                            *)
(***************************************************************************)
EXTENDS Integers, Sequences, FiniteSets, TLC

\* ------------------------------------------------------------------ bounds
MaxFrames == 2      \* wire segments the server sends in one behaviour
MaxRuns   == 2      \* invocations of submit that are open at the same time

\* --------------------------------------------------------------- constants
NumSteps == 6       \* STEPS has six entries
PrefixLen == 6      \* line.slice(6)

Runs    == 1..MaxRuns
StepIds == 1..NumSteps

VARIABLES
  text,      \* useState("")    the hypothesis input
  brief,     \* useState(null)  << >> or << brief >>
  loading,   \* useState(false)
  error,     \* useState(null)  << >> or << message >>
  steps,     \* useState(STEPS.map(...)): id -> [status, detail]
  pc,        \* per invocation slot: "idle" (no invocation, or it has
             \* returned), "fetch", "read", "loop"
  wire,      \* per invocation: the bytes of the response body still to come
  got,       \* per invocation: the bytes reader.read() has delivered so far
  pend,      \* per invocation: bytes held back by TextDecoder (stream: true)
  buffer,    \* per invocation: let buffer
  lines,     \* per invocation: the frames of the for loop not yet visited
  msgs,      \* per invocation: what JSON.parse returned so far, in order
  seen,      \* per invocation: a complete event has been dispatched
  torn,      \* per invocation: some read ended inside a frame
  cur,       \* the invocation inside its synchronous for loop, 0 when none
  menu,      \* the wire segments the server of this behaviour can send
  sent,      \* the number of segments handed to response bodies so far
  latest,    \* the invocation started by the latest submit, 0 before any
  last,      \* << >>, or << what the step just taken, a pass of the for
             \* loop, worked on: the invocation, the line, the state before >>
  xrun,      \* executor: "idle", "running", "complete", "error", "cancelled"
  xstage,    \* executor: stage -> "idle", "running", "done", "error", "dropped"
  xout,      \* executor: the events emitted, in order
  xwire,     \* encoder: the pieces of frames written to the response body
  \* App (dashboard)
  activeTicker, priceData, sentData, modelInfo, prediction,
  loads,        \* invocations of loadAll in flight: <<ticker, await>> -> number
  \* ExplanationPanel, with activeTicker and prediction as its props
  explanation, expanded,
  explains,     \* /explain requests in flight: ticker -> number
  \* AdminPanel
  unlocked, password, passwordInput, passwordError,
  admin_pwd,    \* sessionStorage "admin_pwd", << >> when not set
  checks,       \* invocations of checkPassword in flight: password -> number
  \* LoginPage, with password as its state too
  email,
  session,      \* the session supabase holds, << >> when signed out
  granted,      \* the sessions handed to onLogin, in order
  route,        \* where navigate has led
  logins        \* invocations of submit in flight: <<email, await>> -> number

react == <<text, brief, loading, error, steps>>
calls == <<pc, wire, got, pend, buffer, lines, msgs, seen, torn, cur>>
cvars == <<text, brief, loading, error, steps,
           pc, wire, got, pend, buffer, lines, msgs, seen, torn, cur,
           menu, sent, latest, last>>
xvars == <<xrun, xstage, xout, xwire>>
\* the state of the hypothesis page without loading and error, which every
\* page has
hvars == <<text, brief, steps, pc, wire, got, pend, buffer, lines, msgs, seen,
           torn, cur, menu, sent, latest, last>>
dvars == <<activeTicker, priceData, sentData, modelInfo, prediction, loads>>
pvars == <<explanation, expanded, explains>>
avars == <<unlocked, passwordInput, passwordError, admin_pwd, checks>>
lvars == <<email, session, granted, route, logins>>
\* the state of the pages other than the hypothesis page
ovars == <<dvars, pvars, avars, lvars, password>>
vars  == <<text, brief, loading, error, steps,
           pc, wire, got, pend, buffer, lines, msgs, seen, torn, cur,
           menu, sent, latest, last, xrun, xstage, xout, xwire,
           dvars, pvars, avars, lvars, password>>

\* ----------------------------------------------------------- string tools
RECURSIVE Flatten(_)
Flatten(ss) == IF ss = << >> THEN << >> ELSE Head(ss) \o Flatten(Tail(ss))

Front(s) == SubSeq(s, 1, Len(s) - 1)
Last(s)  == s[Len(s)]

\* String.prototype.trim: leading and trailing white space removed
IsSpace(c) == c \in {" ", "\n"}
RECURSIVE TrimStart(_)
TrimStart(s) ==
  IF s # << >> /\ IsSpace(Head(s)) THEN TrimStart(Tail(s)) ELSE s
RECURSIVE TrimEnd(_)
TrimEnd(s) ==
  IF s # << >> /\ IsSpace(Last(s)) THEN TrimEnd(Front(s)) ELSE s
Trim(s) == TrimEnd(TrimStart(s))

\* String(n) of a non-negative integer, one token per digit
Digit(d) == CASE d = 0 -> "0" [] d = 1 -> "1" [] d = 2 -> "2" [] d = 3 -> "3"
              [] d = 4 -> "4" [] d = 5 -> "5" [] d = 6 -> "6" [] d = 7 -> "7"
              [] d = 8 -> "8" [] d = 9 -> "9"
RECURSIVE IntStr(_)
IntStr(n) == IF n < 10 THEN << Digit(n) >>
             ELSE IntStr(n \div 10) \o << Digit(n % 10) >>

\* n with exactly w digits, zero padded on the left
RECURSIVE Padded(_, _)
Padded(n, w) == IF w = 0 THEN << >>
                ELSE Padded(n \div 10, w - 1) \o << Digit(n % 10) >>

Pow10(d) == CASE d = 0 -> 1 [] d = 1 -> 10 [] d = 2 -> 100 [] d = 3 -> 1000

\* A JSON number is held in thousandths (61537 is 61.537).
\* Number.prototype.toFixed(d), d in 0..3, of a non-negative number:
\* rounded half up to d decimals, always d decimals printed.
ToFixed(x, d) ==
  LET unit == Pow10(3 - d)
      q    == (x + unit \div 2) \div unit
  IN  IF d = 0 THEN IntStr(q)
      ELSE IntStr(q \div Pow10(d)) \o << "." >> \o Padded(q % Pow10(d), d)

\* String(x) of a non-negative number: no trailing zeros, no bare point
RECURSIVE Frac(_, _)
Frac(f, w) == IF f = 0 THEN << >>
              ELSE IF f % 10 = 0 THEN Frac(f \div 10, w - 1)
              ELSE Padded(f, w)
NumStr(x) == IF x % 1000 = 0 THEN IntStr(x \div 1000)
             ELSE IntStr(x \div 1000) \o << "." >> \o Frac(x % 1000, 3)

\* ------------------------------------------------------------ TextDecoder
\* decoder.decode(value, { stream: true }): bytes to characters.  Every
\* token is a run of ASCII bytes except LeadByte and ContByte, the two
\* bytes of one character; an incomplete sequence at the end of a chunk is
\* held back until the next call.
LeadByte == "xC3"
ContByte == "xA9"
TwoByteChar == "U+00E9"
Replacement == "U+FFFD"

RECURSIVE DecodeFrom(_, _, _)
DecodeFrom(held, bytes, out) ==
  IF bytes = << >> THEN [out |-> out, pend |-> held]
  ELSE LET b == Head(bytes) IN
    IF held = << >>
    THEN IF b = LeadByte THEN DecodeFrom(<< b >>, Tail(bytes), out)
         ELSE IF b = ContByte
              THEN DecodeFrom(<< >>, Tail(bytes), out \o << Replacement >>)
              ELSE DecodeFrom(<< >>, Tail(bytes), out \o << b >>)
    ELSE IF b = ContByte
         THEN DecodeFrom(<< >>, Tail(bytes), out \o << TwoByteChar >>)
         ELSE DecodeFrom(<< >>, bytes, out \o << Replacement >>)

Decode(held, bytes) == DecodeFrom(held, bytes, << >>)

\* ------------------------------------------------------------------ split
\* buffer.split("\n\n"): the pieces between successive, non-overlapping
\* occurrences of the delimiter, found left to right; always at least one.
DelimAt(s, i) == i + 1 <= Len(s) /\ s[i] = "\n" /\ s[i + 1] = "\n"

RECURSIVE SplitFrom(_, _)
SplitFrom(s, i) ==
  IF i > Len(s) THEN << s >>
  ELSE IF DelimAt(s, i)
       THEN << SubSeq(s, 1, i - 1) >> \o SplitFrom(SubSeq(s, i + 2, Len(s)), 1)
       ELSE SplitFrom(s, i + 1)

Split(s) == SplitFrom(s, 1)

\* ------------------------------------------------------------- JSON.parse
DataPrefix == << "data", ":", " " >>

StartsWith(s, p) == Len(s) >= Len(p) /\ SubSeq(s, 1, Len(p)) = p

\* s.slice(n): s without its first n characters.  "data" is four
\* characters; Slice is applied to lines that start with DataPrefix only,
\* where every other token it removes is one character.
TokLen(tok) == IF tok = "data" THEN 4 ELSE 1
RECURSIVE Slice(_, _)
Slice(s, n) == IF n <= 0 \/ s = << >> THEN s
               ELSE Slice(Tail(s), n - TokLen(Head(s)))

\* One token per member of a JSON object: key and value.  Numbers other
\* than step are in thousandths.
MsgOpen  == "message:'"
MsgClose == "'"
BriefKO  == [ticker |-> << "KO" >>, feasibility_score |-> 42]

KVTable ==
     ("s:running"         :> << "status", "running" >>)
  @@ ("s:done"            :> << "status", "done" >>)
  @@ ("s:complete"        :> << "status", "complete" >>)
  @@ ("s:error"           :> << "status", "error" >>)
  @@ ("k:0"               :> << "step", 0 >>)
  @@ ("k:1"               :> << "step", 1 >>)
  @@ ("k:2"               :> << "step", 2 >>)
  @@ ("k:3"               :> << "step", 3 >>)
  @@ ("k:4"               :> << "step", 4 >>)
  @@ ("k:5"               :> << "step", 5 >>)
  @@ ("k:6"               :> << "step", 6 >>)
  @@ ("ticker:KO"         :> << "ticker", << "KO" >> >>)
  @@ ("ticker:"           :> << "ticker", << >> >>)
  @@ ("price:61.537"      :> << "price", 61537 >>)
  @@ ("price:0"           :> << "price", 0 >>)
  @@ ("rsi:55.25"         :> << "rsi", 55250 >>)
  @@ ("base_rate:12.5"    :> << "base_rate", 12500 >>)
  @@ ("base_rate:0"       :> << "base_rate", 0 >>)
  @@ ("risks_found:3"     :> << "risks_found", 3000 >>)
  @@ ("risks_found:0"     :> << "risks_found", 0 >>)
  @@ ("catalysts_found:2" :> << "catalysts_found", 2000 >>)
  @@ ("catalysts_found:0" :> << "catalysts_found", 0 >>)
  @@ ("brief:KO"          :> << "brief", BriefKO >>)

EmptyObj == [x \in {} |-> 0]
Put(obj, key, val) ==
  [x \in DOMAIN obj \cup {key} |-> IF x = key THEN val ELSE obj[x]]
Has(obj, key) == key \in DOMAIN obj

\* index of the first MsgClose in s at or after i, 0 when there is none
RECURSIVE CloseAt(_, _)
CloseAt(s, i) == IF i > Len(s) THEN 0
                 ELSE IF s[i] = MsgClose THEN i ELSE CloseAt(s, i + 1)

\* the members between the braces; a later member replaces an earlier one
\* with the same key
RECURSIVE ParseMembers(_, _)
ParseMembers(toks, obj) ==
  IF toks = << >> THEN [ok |-> TRUE, isNull |-> FALSE, val |-> obj]
  ELSE IF Head(toks) = MsgOpen
  THEN LET j == CloseAt(toks, 2) IN
       IF j = 0 THEN [ok |-> FALSE, isNull |-> FALSE, val |-> EmptyObj]
       ELSE ParseMembers(SubSeq(toks, j + 1, Len(toks)),
                         Put(obj, "message", SubSeq(toks, 2, j - 1)))
  ELSE IF Head(toks) \in DOMAIN KVTable
  THEN ParseMembers(Tail(toks),
                    Put(obj, KVTable[Head(toks)][1], KVTable[Head(toks)][2]))
  ELSE [ok |-> FALSE, isNull |-> FALSE, val |-> EmptyObj]

\* JSON.parse(body): ok = FALSE is the SyntaxError; the texts understood are
\* an object and the literal null
JSONParse(body) ==
  IF body = << "null" >> THEN [ok |-> TRUE, isNull |-> TRUE, val |-> EmptyObj]
  ELSE IF Len(body) >= 2 /\ Head(body) = "{" /\ Last(body) = "}"
  THEN ParseMembers(SubSeq(body, 2, Len(body) - 1), EmptyObj)
  ELSE [ok |-> FALSE, isNull |-> FALSE, val |-> EmptyObj]

\* ------------------------------------------------------ the React state
\* STEPS.map(s => ({ ...s, status: "idle", detail: "" })); id is the index
STEPS == [k \in StepIds |-> [status |-> "idle", detail |-> << >>]]

\* updateStep(id, status, detail = ""): the step with this id gets the
\* status and the detail, every other step is kept
updateStep(st, id, status, detail) ==
  [k \in StepIds |-> IF k = id THEN [status |-> status, detail |-> detail]
                     ELSE st[k]]

\* DoneDetail as an else-if chain: the first test that passes decides
DoneDetailFirstWins(msg) ==
  IF Has(msg, "ticker") /\ msg.ticker # << >>
  THEN << "-> " >> \o msg.ticker
  ELSE IF Has(msg, "price") /\ msg.price # 0
  THEN << "-> $" >> \o ToFixed(msg.price, 2) \o << " . RSI " >>
       \o (IF Has(msg, "rsi") THEN ToFixed(msg.rsi, 1) ELSE << "undefined" >>)
  ELSE IF Has(msg, "base_rate")
  THEN << "-> base rate " >> \o NumStr(msg.base_rate) \o << "%" >>
  ELSE IF Has(msg, "risks_found") /\ msg.risks_found # 0
  THEN << "-> " >> \o NumStr(msg.risks_found) \o << " risks identified" >>
  ELSE IF Has(msg, "catalysts_found") /\ msg.catalysts_found # 0
  THEN << "-> " >> \o NumStr(msg.catalysts_found)
       \o << " catalysts identified" >>
  ELSE << >>

\* the detail string of a done event (lines 161-166): each test that passes
\* overwrites the result of the one before
DoneDetail(msg) ==
  LET d0 == << >>
      d1 == IF Has(msg, "ticker") /\ msg.ticker # << >>
            THEN << "-> " >> \o msg.ticker ELSE d0
      d2 == IF Has(msg, "price") /\ msg.price # 0
            THEN << "-> $" >> \o ToFixed(msg.price, 2) \o << " . RSI " >>
                 \o (IF Has(msg, "rsi") THEN ToFixed(msg.rsi, 1)
                     ELSE << "undefined" >>)
            ELSE d1
      d3 == IF Has(msg, "base_rate")
            THEN << "-> base rate " >> \o NumStr(msg.base_rate) \o << "%" >>
            ELSE d2
      d4 == IF Has(msg, "risks_found") /\ msg.risks_found # 0
            THEN << "-> " >> \o NumStr(msg.risks_found)
                 \o << " risks identified" >>
            ELSE d3
      d5 == IF Has(msg, "catalysts_found") /\ msg.catalysts_found # 0
            THEN << "-> " >> \o NumStr(msg.catalysts_found)
                 \o << " catalysts identified" >>
            ELSE d4
  IN  d5

\* msg.step as the id updateStep looks for; no step has id 0
StepOf(msg) == IF Has(msg, "step") THEN msg.step ELSE 0

\* OnRunning with the detail of the step kept
OnRunningKeepsDetail(rs, msg) ==
  [rs EXCEPT !.steps =
     [k \in StepIds |-> IF k = StepOf(msg)
                        THEN [status |-> "running", detail |-> rs.steps[k].detail]
                        ELSE rs.steps[k]]]

\* msg.status === "running" (lines 156-158)
OnRunning(rs, msg) ==
  [rs EXCEPT !.steps = updateStep(rs.steps, StepOf(msg), "running", << >>)]

\* OnDone with the detail not handed to updateStep
OnDoneNoDetail(rs, msg) ==
  [rs EXCEPT !.steps = updateStep(rs.steps, StepOf(msg), "done", << >>)]

\* OnDone with the event attributed by arrival order: to the first step
\* that is not done yet
OnDoneInOrder(rs, msg) ==
  LET open == { k \in StepIds : rs.steps[k].status # "done" }
      id   == IF open = {} THEN 0
              ELSE CHOOSE k \in open : \A j \in open : k <= j
  IN  [rs EXCEPT !.steps = updateStep(rs.steps, id, "done", DoneDetail(msg))]

\* msg.status === "done" (lines 159-168)
OnDone(rs, msg) ==
  [rs EXCEPT !.steps =
     updateStep(rs.steps, StepOf(msg), "done", DoneDetail(msg))]

\* msg.status === "complete" (lines 169-172); a missing brief is undefined
OnComplete(rs, msg) ==
  [rs EXCEPT !.brief = IF Has(msg, "brief") THEN << msg.brief >> ELSE << >>,
             !.loading = FALSE]

\* OnError without setLoading(false) after a step error
OnErrorKeepsLoading(rs, msg) ==
  IF StepOf(msg) > 0
  THEN [rs EXCEPT !.steps =
          updateStep(rs.steps, StepOf(msg), "error",
                     IF Has(msg, "message") THEN msg.message ELSE << >>)]
  ELSE [rs EXCEPT !.error =
          IF Has(msg, "message") /\ msg.message # << >>
          THEN << msg.message >> ELSE << << "Analysis failed." >> >>,
                  !.loading = FALSE]

\* OnError without the fixed text for a missing message
OnErrorNoFallback(rs, msg) ==
  IF StepOf(msg) > 0
  THEN [rs EXCEPT !.steps =
          updateStep(rs.steps, StepOf(msg), "error",
                     IF Has(msg, "message") THEN msg.message ELSE << >>),
                  !.loading = FALSE]
  ELSE [rs EXCEPT !.error =
          IF Has(msg, "message") THEN << msg.message >> ELSE << >>,
                  !.loading = FALSE]

\* msg.status === "error" (lines 173-177); a missing message is undefined,
\* which updateStep's default turns into "" and || into the fixed text
OnError(rs, msg) ==
  IF StepOf(msg) > 0
  THEN [rs EXCEPT !.steps =
          updateStep(rs.steps, StepOf(msg), "error",
                     IF Has(msg, "message") THEN msg.message ELSE << >>),
                  !.loading = FALSE]
  ELSE [rs EXCEPT !.error =
          IF Has(msg, "message") /\ msg.message # << >>
          THEN << msg.message >> ELSE << << "Analysis failed." >> >>,
                  !.loading = FALSE]

\* the body of the try block after JSON.parse (lines 156-177), on the state
\* rs = [brief, loading, error, steps]
Dispatch(rs, msg) ==
  LET status == IF Has(msg, "status") THEN msg.status ELSE "" IN
  CASE status = "running"  -> OnRunning(rs, msg)
    [] status = "done"     -> OnDone(rs, msg)
    [] status = "complete" -> OnComplete(rs, msg)
    [] status = "error"    -> OnError(rs, msg)
    [] OTHER               -> rs

\* one pass of the for loop body (lines 152-180): a line without the prefix
\* is passed over, a throw inside the try block is caught and logged
ParseLine(line) == JSONParse(Slice(line, PrefixLen))
Parsed(line)    == StartsWith(line, DataPrefix) /\ ParseLine(line).ok
Dispatched(line) == Parsed(line) /\ ~ParseLine(line).isNull
IsComplete(line) ==
  Has(ParseLine(line).val, "status") /\ ParseLine(line).val.status = "complete"
\* HandleLine with a body that does not parse ending the run
HandleLineFatal(rs, line) ==
  IF Dispatched(line) THEN Dispatch(rs, ParseLine(line).val)
  ELSE IF StartsWith(line, DataPrefix)
       THEN [rs EXCEPT !.error = << << "Backend error." >> >>,
                       !.loading = FALSE]
       ELSE rs
\* HandleLine with a line without the prefix ending the run
HandleLineStrict(rs, line) ==
  IF Dispatched(line) THEN Dispatch(rs, ParseLine(line).val)
  ELSE IF ~StartsWith(line, DataPrefix)
       THEN [rs EXCEPT !.error = << << "Backend error." >> >>,
                       !.loading = FALSE]
       ELSE rs
HandleLine(rs, line) ==
  IF Dispatched(line) THEN Dispatch(rs, ParseLine(line).val) ELSE rs

\* const lines = buffer.split("\n\n"); buffer = lines.pop() (lines 147-149):
\* the frames that are complete, and the incomplete rest that is kept
NextLines(buf, chars)  == Front(Split(buf \o chars))
\* NextBuffer with the incomplete rest thrown away
NextBufferLost(buf, chars) == << >>
\* NextBuffer with the frames already split off kept in the buffer
NextBufferKeepsAll(buf, chars) == buf \o chars
NextBuffer(buf, chars) == Last(Split(buf \o chars))

\* e.message || "Backend error."
CaughtMessage(m) == IF m # << >> THEN m ELSE << "Backend error." >>

\* ------------------------------------------------- what the server sends
\* `data: ${json}\n\n`
Obj(members) == << "{" >> \o members \o << "}" >>
Frame(body)  == DataPrefix \o body \o << "\n", "\n" >>
Message(str) == << MsgOpen >> \o str \o << MsgClose >>

StepTok(k) == CASE k = 0 -> "k:0" [] k = 1 -> "k:1" [] k = 2 -> "k:2"
                [] k = 3 -> "k:3" [] k = 4 -> "k:4" [] k = 5 -> "k:5"
                [] k = 6 -> "k:6"

RunningFrame(k)      == Frame(Obj(<< "s:running", StepTok(k) >>))
DoneFrame(k, fields) == Frame(Obj(<< "s:done", StepTok(k) >> \o fields))
ErrorFrame(k, rest)  == Frame(Obj(<< "s:error", StepTok(k) >> \o rest))
CompleteFrame        == Frame(Obj(<< "s:complete", "brief:KO" >>))

\* The segments one server can send, by what the behaviour is to exercise.
\* a stage of a pipeline run that succeeds
PipelineMenu ==
  { RunningFrame(4), DoneFrame(4, << "risks_found:3" >>), CompleteFrame }

\* the two stages that run concurrently
ParallelMenu ==
  { DoneFrame(4, << "risks_found:3" >>),
    DoneFrame(5, << "catalysts_found:2" >>), RunningFrame(5) }

\* a pipeline run that fails
FailureMenu ==
  { RunningFrame(4), ErrorFrame(4, Message(<< "timeout" >>)), CompleteFrame }

\* a running event for every step
RunningMenu == { RunningFrame(k) : k \in StepIds }

\* done events by the summary field they carry
DoneMenu ==
  { DoneFrame(1, << >>), DoneFrame(1, << "ticker:KO" >>),
    DoneFrame(2, << "price:61.537", "rsi:55.25" >>),
    DoneFrame(3, << "base_rate:12.5" >>),
    DoneFrame(6, << "catalysts_found:2" >>),
    RunningFrame(1) }

\* pipeline-level errors by message: two-byte character, absent, empty
Error0Menu ==
  { ErrorFrame(0, Message(<< "caf", LeadByte, ContByte >>)),
    ErrorFrame(0, << >>), ErrorFrame(0, Message(<< >>)) }

\* step errors by message
ErrorStepMenu ==
  { ErrorFrame(4, Message(<< "timeout" >>)), ErrorFrame(6, << >>),
    DoneFrame(4, << "risks_found:3" >>) }

\* framing: a body that is not JSON, the body null, a comment frame, a
\* lone line feed
FramingMenu ==
  { RunningFrame(4),
    Frame(<< "{", "s:running" >>),
    Frame(<< "null" >>),
    << ":", " ", "ping", "\n", "\n" >>,
    << "\n" >> }

\* a frame that arrives without its delimiter
TailMenu ==
  { DataPrefix \o Obj(<< "s:complete", "brief:KO" >>),
    << "\n" >>,
    ErrorFrame(0, Message(<< LeadByte, ContByte >>)) }

\* done events with more than one summary field, and with fields that are 0
PrecedenceMenu ==
  { DoneFrame(2, << "ticker:KO", "price:61.537", "rsi:55.25" >>),
    DoneFrame(3, << "price:0", "base_rate:0" >>),
    DoneFrame(5, << "base_rate:12.5", "risks_found:0", "catalysts_found:0" >>),
    DoneFrame(4, << "ticker:KO", "risks_found:3", "catalysts_found:2" >>) }

\* got and msgs record the history of an invocation; they are kept in the
\* behaviours that exercise the decoder
AuditMenus == { FramingMenu, TailMenu }

Menus == { PipelineMenu, ParallelMenu, FailureMenu, RunningMenu, DoneMenu,
           Error0Menu, ErrorStepMenu, FramingMenu, TailMenu, PrecedenceMenu }

\* the response bodies of at most n segments
Bodies(n) == UNION { [1..m -> menu] : m \in 0..n }

\* e.message of a rejected fetch or read
NetMessages == { << >>, << "Failed to fetch" >> }
\* response.status of a response that is not ok
BadStatus == 500

\* what can be typed into the input
Texts == { << " " >>, << "KO up" >> }

\* --------------------------------------------------------------- the page
\* an invocation that has returned leaves its slot to a later one
Free(r)  == pc[r] = "idle"
NextRun  == CHOOSE r \in Runs : Free(r) /\ \A q \in Runs : q < r => ~Free(q)

PageIdle ==
  /\ text = << >>
  /\ brief = << >>
  /\ loading = FALSE
  /\ error = << >>
  /\ steps = STEPS
  /\ pc = [r \in Runs |-> "idle"]
  /\ wire = [r \in Runs |-> << >>]
  /\ got = [r \in Runs |-> << >>]
  /\ pend = [r \in Runs |-> << >>]
  /\ buffer = [r \in Runs |-> << >>]
  /\ lines = [r \in Runs |-> << >>]
  /\ msgs = [r \in Runs |-> << >>]
  /\ seen = [r \in Runs |-> FALSE]
  /\ torn = [r \in Runs |-> FALSE]
  /\ cur = 0
  /\ sent = 0
  /\ latest = 0
  /\ last = << >>

ExecIdle ==
  /\ xrun = "idle"
  /\ xstage = [k \in StepIds |-> "idle"]
  /\ xout = << >>
  /\ xwire = << >>

\* ---------------------------------------- the other pages, before use
\* calls in flight are counted by what they were made with
RECURSIVE SumOver(_, _)
SumOver(f, S) ==
  IF S = {} THEN 0
  ELSE LET k == CHOOSE x \in S : TRUE IN f[k] + SumOver(f, S \ {k})
InFlight(b) == SumOver(b, DOMAIN b)
Inc(b, k)   == [b EXCEPT ![k] = @ + 1]
Dec(b, k)   == [b EXCEPT ![k] = @ - 1]

\* tickers of the coverage bar
Tickers  == { "KO", "AAPL" }
\* the two awaits of loadAll: Promise.all of the three fast endpoints, and
\* fetchPrediction
LoadKeys == Tickers \X { "fast", "pred" }

\* the admin password the server accepts, and one it does not
AdminPwd  == "s3cret"
WrongPwd  == "guess"
Passwords == { AdminPwd, WrongPwd }
\* the two callers of GET /subscribers: checkPassword and fetchSubscribers,
\* by the password of the Authorization header
AdminKeys == (Passwords \cup {""}) \X { "check", "list" }

\* supabase accounts by the email typed: role admin, no role, not known
Emails    == { "admin@ts", "user@ts", "nobody@ts" }
\* the two awaits of LoginPage.submit: signInWithPassword and signOut
LoginKeys == Emails \X { "signIn", "signOut" }

DashIdle ==
  /\ activeTicker = "KO"
  /\ priceData = << >>
  /\ sentData = << >>
  /\ modelInfo = << >>
  /\ prediction = << >>
  /\ loads = [k \in LoadKeys |-> 0]

PanelIdle ==
  /\ explanation = << >>
  /\ expanded = FALSE
  /\ explains = [t \in Tickers |-> 0]

AdminIdle ==
  /\ unlocked = FALSE
  /\ passwordInput = ""
  /\ passwordError = FALSE
  /\ admin_pwd = << >>
  /\ checks = [k \in AdminKeys |-> 0]

LoginIdle ==
  /\ email = ""
  /\ session = << >>
  /\ granted = {}
  /\ route = "/login"
  /\ logins = [k \in LoginKeys |-> 0]

OthersIdle ==
  /\ DashIdle
  /\ PanelIdle
  /\ AdminIdle
  /\ LoginIdle
  /\ password = ""

Init ==
  /\ PageIdle
  /\ menu \in Menus
  /\ ExecIdle
  /\ OthersIdle

\* onChange of the input, which is disabled while loading
SetText(t) ==
  /\ cur = 0
  /\ ~loading
  /\ t # text
  /\ text' = t
  /\ last' = << >>
  /\ UNCHANGED <<brief, loading, error, steps, calls, menu, sent, latest>>
  /\ UNCHANGED <<xvars, ovars>>

\* submit with a blank text: if (!text.trim()) return
SubmitBlank ==
  /\ cur = 0
  /\ ~loading
  /\ Trim(text) = << >>
  /\ UNCHANGED vars

\* Submit without setSteps: the steps of the run before are kept
SubmitKeepsSteps ==
  /\ cur = 0
  /\ ~loading
  /\ Trim(text) # << >>
  /\ \E r \in Runs : Free(r)
  /\ loading' = TRUE
  /\ error' = << >>
  /\ brief' = << >>
  /\ pc' = [pc EXCEPT ![NextRun] = "fetch"]
  /\ latest' = NextRun
  /\ last' = << >>
  /\ UNCHANGED <<text, steps, wire, got, pend, buffer, lines, msgs, seen,
                 torn, cur, menu, sent>>
  /\ UNCHANGED <<xvars, ovars>>

\* submit up to the await of fetch (lines 124-135); the button and the
\* input are disabled while loading
Submit ==
  /\ cur = 0
  /\ ~loading
  /\ Trim(text) # << >>
  /\ \E r \in Runs : Free(r)
  /\ loading' = TRUE
  /\ error' = << >>
  /\ brief' = << >>
  /\ steps' = STEPS
  /\ pc' = [pc EXCEPT ![NextRun] = "fetch"]
  /\ latest' = NextRun
  /\ last' = << >>
  /\ UNCHANGED <<text, wire, got, pend, buffer, lines, msgs, seen, torn,
                 cur, menu, sent>>
  /\ UNCHANGED <<xvars, ovars>>

\* submit returns: the response, the reader and the locals are dropped
Return(r) ==
  /\ pc' = [pc EXCEPT ![r] = "idle"]
  /\ wire' = [wire EXCEPT ![r] = << >>]
  /\ got' = [got EXCEPT ![r] = << >>]
  /\ pend' = [pend EXCEPT ![r] = << >>]
  /\ buffer' = [buffer EXCEPT ![r] = << >>]
  /\ msgs' = [msgs EXCEPT ![r] = << >>]
  /\ seen' = [seen EXCEPT ![r] = FALSE]
  /\ torn' = [torn EXCEPT ![r] = FALSE]
  /\ last' = << >>
  /\ UNCHANGED <<lines, cur, menu, sent, latest>>
  /\ UNCHANGED <<xvars, ovars>>

\* Catch without setLoading(false)
CatchKeepsLoading(r, m) ==
  /\ error' = << CaughtMessage(m) >>
  /\ Return(r)
  /\ UNCHANGED <<text, brief, loading, steps>>

\* the catch block (lines 183-186)
Catch(r, m) ==
  /\ error' = << CaughtMessage(m) >>
  /\ loading' = FALSE
  /\ Return(r)
  /\ UNCHANGED <<text, brief, steps>>

\* fetch rejects
FetchReject(r, m) ==
  /\ cur = 0
  /\ pc[r] = "fetch"
  /\ Catch(r, m)

\* if (!response.ok) throw new Error(`HTTP ${response.status}`)
FetchNotOk(r) ==
  /\ cur = 0
  /\ pc[r] = "fetch"
  /\ Catch(r, << "HTTP " >> \o IntStr(BadStatus))

\* fetch resolves with an ok response; body is what the server will send
FetchOkWith(r, body) ==
  /\ cur = 0
  /\ pc[r] = "fetch"
  /\ sent + Len(body) <= MaxFrames
  /\ wire' = [wire EXCEPT ![r] = Flatten(body)]
  /\ sent' = sent + Len(body)
  /\ pc' = [pc EXCEPT ![r] = "read"]
  /\ last' = << >>
  /\ UNCHANGED <<react, got, pend, buffer, lines, msgs, seen, torn, cur,
                 menu, latest>>
  /\ UNCHANGED <<xvars, ovars>>

FetchOk(r) == \E body \in Bodies(MaxFrames - sent) : FetchOkWith(r, body)

\* reader.read() resolves with the next n bytes (lines 144-149); the for
\* loop that follows runs without interruption, one ProcessLine per frame
ReadBytes(r, n) ==
  /\ cur = 0
  /\ pc[r] = "read"
  /\ n <= Len(wire[r])
  /\ LET value == SubSeq(wire[r], 1, n)
         d     == Decode(pend[r], value)
         todo  == NextLines(buffer[r], d.out)
     IN  /\ wire' = [wire EXCEPT ![r] = SubSeq(wire[r], n + 1, Len(wire[r]))]
         /\ got' = [got EXCEPT ![r] = IF menu \in AuditMenus
                                      THEN got[r] \o value ELSE << >>]
         /\ pend' = [pend EXCEPT ![r] = d.pend]
         /\ buffer' = [buffer EXCEPT ![r] = NextBuffer(buffer[r], d.out)]
         /\ lines' = [lines EXCEPT ![r] = todo]
         /\ pc' = [pc EXCEPT ![r] = IF todo = << >> THEN "read" ELSE "loop"]
         /\ cur' = IF todo = << >> THEN 0 ELSE r
         /\ torn' = [torn EXCEPT ![r] =
                       menu \in AuditMenus
                       /\ (torn[r] \/ d.pend # << >>
                           \/ NextBuffer(buffer[r], d.out) # << >>)]
  /\ last' = << >>
  /\ UNCHANGED <<react, msgs, seen, menu, sent, latest>>
  /\ UNCHANGED <<xvars, ovars>>

ReadChunk(r) == \E n \in 1..Len(wire[r]) : ReadBytes(r, n)

\* one iteration of for (const line of lines)
ProcessLine(r) ==
  /\ cur = r
  /\ lines[r] # << >>
  /\ LET line == Head(lines[r])
         rs   == HandleLine([brief |-> brief, loading |-> loading,
                             error |-> error, steps |-> steps], line)
     IN  /\ brief' = rs.brief
         /\ loading' = rs.loading
         /\ error' = rs.error
         /\ steps' = rs.steps
         /\ msgs' = [msgs EXCEPT ![r] =
                       IF menu \in AuditMenus /\ Parsed(line)
                       THEN Append(msgs[r], ParseLine(line)) ELSE msgs[r]]
         /\ seen' = [seen EXCEPT ![r] =
                       seen[r] \/ (Dispatched(line) /\ IsComplete(line))]
         /\ last' = << [run |-> r, line |-> line, seen |-> seen[r],
                        rest |-> Tail(lines[r]),
                        brief |-> brief, loading |-> loading,
                        error |-> error, steps |-> steps] >>
  /\ lines' = [lines EXCEPT ![r] = Tail(lines[r])]
  /\ pc' = [pc EXCEPT ![r] = IF Tail(lines[r]) = << >> THEN "read" ELSE "loop"]
  /\ cur' = IF Tail(lines[r]) = << >> THEN 0 ELSE r
  /\ UNCHANGED <<text, wire, got, pend, buffer, torn, menu, sent, latest>>
  /\ UNCHANGED <<xvars, ovars>>

\* ReadDone with the rest of the buffer handled as a last frame
ReadDoneFlush(r) ==
  /\ cur = 0
  /\ pc[r] = "read"
  /\ wire[r] = << >>
  /\ Return(r)
  /\ LET rs == HandleLine([brief |-> brief, loading |-> loading,
                           error |-> error, steps |-> steps], buffer[r])
     IN  /\ brief' = rs.brief
         /\ loading' = rs.loading
         /\ error' = rs.error
         /\ steps' = rs.steps
  /\ UNCHANGED text

\* reader.read() resolves with done: break, submit returns
ReadDone(r) ==
  /\ cur = 0
  /\ pc[r] = "read"
  /\ wire[r] = << >>
  /\ Return(r)
  /\ UNCHANGED react

\* reader.read() rejects
ReadFail(r, m) ==
  /\ cur = 0
  /\ pc[r] = "read"
  /\ Catch(r, m)

Next ==
  \/ \E t \in Texts : SetText(t)
  \/ SubmitBlank
  \/ Submit
  \/ \E r \in Runs, m \in NetMessages : FetchReject(r, m)
  \/ \E r \in Runs : FetchNotOk(r)
  \/ \E r \in Runs : FetchOk(r)
  \/ \E r \in Runs : ReadChunk(r)
  \/ \E r \in Runs : ProcessLine(r)
  \/ \E r \in Runs : ReadDone(r)
  \/ \E r \in Runs, m \in NetMessages : ReadFail(r, m)

Spec == Init /\ [][Next]_vars

\* ------------------------------------------------------- the executor
\* spec.md 4.1, 4.2, 5 and 7: run(requestText) -> stream of StreamEvent.
\* Stage ids are the step ids of the events: 1 parse, 2 market-context,
\* 3 historical-evidence, 4 bear-case, 5 bull-case, 6 synthesize.
Synthesize == NumSteps

\* parse -> market-context -> historical-evidence -> {bear-case, bull-case}
\* -> synthesize
Deps(k) == CASE k = 1 -> {}
             [] k = 2 -> {1}
             [] k = 3 -> {1, 2}
             [] k = 4 -> {1, 2, 3}
             [] k = 5 -> {1, 2, 3}
             [] k = 6 -> {1, 2, 3, 4, 5}

\* the three sub-scores with their caps, summed and clamped to [0,100]
CapHistory   == 40
CapTechnical == 30
CapRealism   == 30
Min(a, b) == IF a < b THEN a ELSE b
Max(a, b) == IF a > b THEN a ELSE b
SubScores(h, t, p) ==
  << Min(h, CapHistory), Min(t, CapTechnical), Min(p, CapRealism) >>
\* Feasibility without the clamp
FeasibilityUnclamped(h, t, p) ==
  SubScores(h, t, p)[1] + SubScores(h, t, p)[2] + SubScores(h, t, p)[3]
Feasibility(h, t, p) ==
  Min(100, Max(0, SubScores(h, t, p)[1] + SubScores(h, t, p)[2]
                  + SubScores(h, t, p)[3]))
\* what the three weighting functions may return before the caps
RawScores == { -20, 12, 45 }

Event(st, k)  ==
  [status |-> st, step |-> k, score |-> 0, parts |-> << 0, 0, 0 >>]
Terminal(e)   == e.status \in {"complete", "error"}

\* run(requestText): the coordinating task of one run starts
ExecRun ==
  /\ xrun = "idle"
  /\ xrun' = "running"
  /\ UNCHANGED <<xstage, xout, xwire>>
  /\ UNCHANGED <<cvars, ovars>>

\* ExecReject with running(1) emitted before the error
ExecRejectAfterRunning ==
  /\ xrun = "running"
  /\ xstage[1] = "idle"
  /\ xstage' = [xstage EXCEPT ![1] = "error"]
  /\ xout' = xout \o << Event("running", 1), Event("error", 0) >>
  /\ xrun' = "error"
  /\ UNCHANGED xwire
  /\ UNCHANGED <<cvars, ovars>>

\* the request does not parse (no resolvable or supported ticker, no
\* timeframe): a step-0 error before any stage executes, and the run halts
ExecReject ==
  /\ xrun = "running"
  /\ xstage[1] = "idle"
  /\ xstage' = [xstage EXCEPT ![1] = "error"]
  /\ xout' = Append(xout, Event("error", 0))
  /\ xrun' = "error"
  /\ UNCHANGED xwire
  /\ UNCHANGED <<cvars, ovars>>

\* ExecStart without the test of the dependencies
ExecStartEager(k) ==
  /\ xrun = "running"
  /\ xstage[k] = "idle"
  /\ xstage' = [xstage EXCEPT ![k] = "running"]
  /\ xout' = Append(xout, Event("running", k))
  /\ UNCHANGED <<xrun, xwire>>
  /\ UNCHANGED <<cvars, ovars>>

\* ExecStart that goes on scheduling after a stage has failed
ExecStartAfterError(k) ==
  /\ xrun \in {"running", "error"}
  /\ xstage[k] = "idle"
  /\ \A d \in Deps(k) : xstage[d] = "done"
  /\ xstage' = [xstage EXCEPT ![k] = "running"]
  /\ xout' = Append(xout, Event("running", k))
  /\ UNCHANGED <<xrun, xwire>>
  /\ UNCHANGED <<cvars, ovars>>

\* a stage whose dependencies are all done is scheduled: running is emitted
\* immediately before the handler is invoked
ExecStart(k) ==
  /\ xrun = "running"
  /\ xstage[k] = "idle"
  /\ \A d \in Deps(k) : xstage[d] = "done"
  /\ xstage' = [xstage EXCEPT ![k] = "running"]
  /\ xout' = Append(xout, Event("running", k))
  /\ UNCHANGED <<xrun, xwire>>
  /\ UNCHANGED <<cvars, ovars>>

\* the handler of a stage before synthesize returns its output
ExecDone(k) ==
  /\ xrun = "running"
  /\ k # Synthesize
  /\ xstage[k] = "running"
  /\ xstage' = [xstage EXCEPT ![k] = "done"]
  /\ xout' = Append(xout, Event("done", k))
  /\ UNCHANGED <<xrun, xwire>>
  /\ UNCHANGED <<cvars, ovars>>

\* ExecFail with the run going on after the error
ExecFailGoesOn(k) ==
  /\ xrun = "running"
  /\ xstage[k] = "running"
  /\ xstage' = [xstage EXCEPT ![k] = "error"]
  /\ xout' = Append(xout, Event("error", k))
  /\ UNCHANGED <<xrun, xwire>>
  /\ UNCHANGED <<cvars, ovars>>

\* a handler fails or times out: fatal, a step-N error and no more
\* scheduling
ExecFail(k) ==
  /\ xrun = "running"
  /\ xstage[k] = "running"
  /\ xstage' = [xstage EXCEPT ![k] = "error"]
  /\ xout' = Append(xout, Event("error", k))
  /\ xrun' = "error"
  /\ UNCHANGED xwire
  /\ UNCHANGED <<cvars, ovars>>

\* synthesize produces the brief: complete
ExecComplete(h, t, p) ==
  /\ xrun = "running"
  /\ xstage[Synthesize] = "running"
  /\ xstage' = [xstage EXCEPT ![Synthesize] = "done"]
  /\ xout' = Append(xout, [status |-> "complete", step |-> Synthesize,
                           score |-> Feasibility(h, t, p),
                           parts |-> SubScores(h, t, p)])
  /\ xrun' = "complete"
  /\ UNCHANGED xwire
  /\ UNCHANGED <<cvars, ovars>>

\* the consumer disconnects, or a send fails: the run ends early and no
\* further event is attempted
ExecCancel ==
  /\ xrun = "running"
  /\ xrun' = "cancelled"
  /\ UNCHANGED <<xstage, xout, xwire>>
  /\ UNCHANGED <<cvars, ovars>>

\* a call already dispatched completes after the run has stopped: its
\* result is discarded
ExecDiscard(k) ==
  /\ xrun \in {"error", "cancelled"}
  /\ xstage[k] = "running"
  /\ xstage' = [xstage EXCEPT ![k] = "dropped"]
  /\ UNCHANGED <<xrun, xout, xwire>>
  /\ UNCHANGED <<cvars, ovars>>

\* The encoder: the single point through which every event goes to the
\* response body.  A frame is written in two pieces, `data: ${json}` and
\* the delimiter.
Piece(n, part)  == [ev |-> n, part |-> part]
Written(part)   == Cardinality({ i \in 1..Len(xwire) : xwire[i].part = part })

\* EncodeHead that starts a frame while the one before is not finished
EncodeHeadUnserialized ==
  /\ xrun # "cancelled"
  /\ Written("head") < Len(xout)
  /\ xwire' = Append(xwire, Piece(Written("head") + 1, "head"))
  /\ UNCHANGED <<xrun, xstage, xout>>
  /\ UNCHANGED <<cvars, ovars>>

\* the next event is taken once the frame before it is written in full
EncodeHead ==
  /\ xrun # "cancelled"
  /\ Written("head") = Written("tail")
  /\ Written("head") < Len(xout)
  /\ xwire' = Append(xwire, Piece(Written("head") + 1, "head"))
  /\ UNCHANGED <<xrun, xstage, xout>>
  /\ UNCHANGED <<cvars, ovars>>

\* the delimiter of the frame that was started
EncodeTail ==
  /\ xrun # "cancelled"
  /\ Written("tail") < Written("head")
  /\ xwire' = Append(xwire, Piece(Written("tail") + 1, "tail"))
  /\ UNCHANGED <<xrun, xstage, xout>>
  /\ UNCHANGED <<cvars, ovars>>

ExecInit ==
  /\ PageIdle
  /\ menu = {}
  /\ ExecIdle
  /\ OthersIdle

ExecNext ==
  \/ ExecRun
  \/ ExecReject
  \/ \E k \in StepIds : ExecStart(k)
  \/ \E k \in StepIds : ExecDone(k)
  \/ \E k \in StepIds : ExecFail(k)
  \/ \E h \in RawScores, t \in RawScores, p \in RawScores : ExecComplete(h, t, p)
  \/ ExecCancel
  \/ \E k \in StepIds : ExecDiscard(k)
  \/ EncodeHead
  \/ EncodeTail

ExecSpec == ExecInit /\ [][ExecNext]_vars

\* ------------------------------------------- the synchronous page
\* HypothesisPage of src/unnamed/part_002: the same text, brief, loading
\* and error, one POST /hypothesis per submit.  The request is served by a
\* run of the executor that buffers its events and answers with the
\* terminal result; pc[1] is "post" while the request is pending.
BriefOf(e) == [ticker |-> << "KO" >>, feasibility_score |-> e.score]

\* e.response?.data?.detail of a rejected request: << >> when there is no
\* response or no detail
Details == { << >>, << "Could not parse hypothesis" >> }
NoDetail == << "Backend error. Is the server running?" >>

\* submit up to the await of axios.post (lines 13-16)
SyncSubmit ==
  /\ cur = 0
  /\ ~loading
  /\ Trim(text) # << >>
  /\ pc[1] = "idle"
  /\ loading' = TRUE
  /\ error' = << >>
  /\ brief' = << >>
  /\ pc' = [pc EXCEPT ![1] = "post"]
  /\ latest' = 1
  /\ xrun' = "running"
  /\ xstage' = [k \in StepIds |-> "idle"]
  /\ xout' = << >>
  /\ UNCHANGED <<text, steps, wire, got, pend, buffer, lines, msgs, seen,
                 torn, cur, menu, sent, last, xwire>>
  /\ UNCHANGED ovars

\* the request resolves with the brief (line 17), then finally (line 21)
SyncResolve ==
  /\ pc[1] = "post"
  /\ xrun = "complete"
  /\ brief' = << BriefOf(xout[Len(xout)]) >>
  /\ loading' = FALSE
  /\ pc' = [pc EXCEPT ![1] = "idle"]
  /\ UNCHANGED <<text, error, steps, wire, got, pend, buffer, lines, msgs,
                 seen, torn, cur, menu, sent, latest, last>>
  /\ UNCHANGED <<xvars, ovars>>

\* SyncReject with setLoading(false) at the end of try, not in finally
SyncRejectStillLoading(d) ==
  /\ pc[1] = "post"
  /\ xrun = "error" \/ d = << >>
  /\ error' = << IF d # << >> THEN d ELSE NoDetail >>
  /\ pc' = [pc EXCEPT ![1] = "idle"]
  /\ UNCHANGED <<text, brief, loading, steps, wire, got, pend, buffer, lines,
                 msgs, seen, torn, cur, menu, sent, latest, last>>
  /\ UNCHANGED <<xvars, ovars>>

\* the request rejects (lines 18-19), then finally (line 21): an error
\* response of a run that failed, or no response at all
SyncReject(d) ==
  /\ pc[1] = "post"
  /\ xrun = "error" \/ d = << >>
  /\ error' = << IF d # << >> THEN d ELSE NoDetail >>
  /\ loading' = FALSE
  /\ pc' = [pc EXCEPT ![1] = "idle"]
  /\ UNCHANGED <<text, brief, steps, wire, got, pend, buffer, lines, msgs,
                 seen, torn, cur, menu, sent, latest, last>>
  /\ UNCHANGED <<xvars, ovars>>

SyncInit ==
  /\ PageIdle
  /\ menu = {}
  /\ ExecIdle
  /\ OthersIdle

SyncNext ==
  \/ \E t \in Texts : SetText(t)
  \/ SubmitBlank
  \/ SyncSubmit
  \/ ExecReject
  \/ \E k \in StepIds : ExecStart(k)
  \/ \E k \in StepIds : ExecDone(k)
  \/ \E k \in StepIds : ExecFail(k)
  \/ \E h \in RawScores, t \in RawScores, p \in RawScores : ExecComplete(h, t, p)
  \/ \E k \in StepIds : ExecDiscard(k)
  \/ SyncResolve
  \/ \E d \in Details : SyncReject(d)

SyncSpec == SyncInit /\ [][SyncNext]_vars

\* ------------------------------------------------------- the dashboard
\* App of src/unnamed/part_001 (and part_000): activeTicker, the data of
\* the four endpoints, loading and error.  Data is << >> before it was
\* loaded and << t >> when it is the response for ticker t.
FetchFailed == << "Failed to fetch data. Is the backend running?" >>

\* loadAll(ticker) up to its first await (lines 34-37)
LoadAll(t) ==
  /\ InFlight(loads) < MaxRuns
  /\ loading' = TRUE
  /\ error' = << >>
  /\ prediction' = << >>
  /\ loads' = Inc(loads, << t, "fast" >>)
  /\ UNCHANGED <<priceData, sentData, modelInfo>>

\* a ticker button: setActiveTicker, then the effect on [activeTicker]
SelectTicker(t) ==
  /\ t # activeTicker
  /\ activeTicker' = t
  /\ LoadAll(t)
  /\ UNCHANGED <<hvars, xvars, pvars, avars, lvars, password>>

\* onRefresh: loadAll(activeTicker)
Refresh ==
  /\ LoadAll(activeTicker)
  /\ UNCHANGED <<activeTicker, hvars, xvars, pvars, avars, lvars, password>>

\* Promise.all resolves (lines 38-41), up to the await of fetchPrediction
FastResolve(t) ==
  /\ loads[<< t, "fast" >>] > 0
  /\ priceData' = << t >>
  /\ sentData' = << t >>
  /\ modelInfo' = << t >>
  /\ loading' = FALSE
  /\ loads' = Inc(Dec(loads, << t, "fast" >>), << t, "pred" >>)
  /\ UNCHANGED <<activeTicker, prediction, error>>
  /\ UNCHANGED <<hvars, xvars, pvars, avars, lvars, password>>

\* fetchPrediction resolves (lines 42-44)
PredResolve(t) ==
  /\ loads[<< t, "pred" >>] > 0
  /\ prediction' = << t >>
  /\ loads' = Dec(loads, << t, "pred" >>)
  /\ UNCHANGED <<activeTicker, priceData, sentData, modelInfo, loading, error>>
  /\ UNCHANGED <<hvars, xvars, pvars, avars, lvars, password>>

\* either await rejects: the catch block (lines 45-48)
LoadReject(t, a) ==
  /\ loads[<< t, a >>] > 0
  /\ error' = << FetchFailed >>
  /\ loading' = FALSE
  /\ loads' = Dec(loads, << t, a >>)
  /\ UNCHANGED <<activeTicker, priceData, sentData, modelInfo, prediction>>
  /\ UNCHANGED <<hvars, xvars, pvars, avars, lvars, password>>

\* App is mounted: loading starts true and the effect has called
\* loadAll("KO")
DashInit ==
  /\ text = << >> /\ brief = << >> /\ steps = STEPS
  /\ pc = [r \in Runs |-> "idle"]
  /\ wire = [r \in Runs |-> << >>]
  /\ got = [r \in Runs |-> << >>]
  /\ pend = [r \in Runs |-> << >>]
  /\ buffer = [r \in Runs |-> << >>]
  /\ lines = [r \in Runs |-> << >>]
  /\ msgs = [r \in Runs |-> << >>]
  /\ seen = [r \in Runs |-> FALSE]
  /\ torn = [r \in Runs |-> FALSE]
  /\ cur = 0 /\ sent = 0 /\ latest = 0 /\ last = << >>
  /\ menu = {}
  /\ ExecIdle
  /\ PanelIdle /\ AdminIdle /\ LoginIdle /\ password = ""
  /\ activeTicker = "KO"
  /\ priceData = << >>
  /\ sentData = << >>
  /\ modelInfo = << >>
  /\ prediction = << >>
  /\ loading = TRUE
  /\ error = << >>
  /\ loads = [k \in LoadKeys |-> IF k = << "KO", "fast" >> THEN 1 ELSE 0]

DashNext ==
  \/ \E t \in Tickers : SelectTicker(t)
  \/ Refresh
  \/ \E t \in Tickers : FastResolve(t)
  \/ \E t \in Tickers : PredResolve(t)
  \/ \E t \in Tickers, a \in { "fast", "pred" } : LoadReject(t, a)

DashSpec == DashInit /\ [][DashNext]_vars

\* ----------------------------------------------------- ExplanationPanel
\* src/app/frontend/src/components/ExplanationPanel.jsx, rendered by the
\* dashboard with ticker = activeTicker and prediction = prediction.
ExplainFailed == << "Failed to load explanation." >>

\* the prop ticker changes: the reset effect (lines 12-17), then the effect
\* on [ticker, expanded] (lines 20-24), which still sees the expanded of the
\* render that the effects belong to
PropTicker(t) ==
  /\ t # activeTicker
  /\ activeTicker' = t
  /\ explanation' = << >>
  /\ error' = << >>
  /\ expanded' = FALSE
  /\ IF prediction # << >> /\ expanded
     THEN /\ InFlight(explains) < MaxRuns
          /\ loading' = TRUE
          /\ explains' = Inc(explains, t)
     ELSE /\ loading' = FALSE
          /\ UNCHANGED explains
  /\ UNCHANGED <<priceData, sentData, modelInfo, prediction, loads>>
  /\ UNCHANGED <<hvars, xvars, avars, lvars, password>>

\* the prop prediction changes: no effect depends on it
PropPrediction(p) ==
  /\ p # prediction
  /\ prediction' = p
  /\ UNCHANGED <<activeTicker, priceData, sentData, modelInfo, loads>>
  /\ UNCHANGED <<loading, error, hvars, xvars, pvars, avars, lvars, password>>

\* a click on the header: setExpanded(!expanded), then the effect on
\* [ticker, expanded], which calls loadExplanation (lines 26-37)
Toggle ==
  /\ expanded' = ~expanded
  /\ IF prediction # << >> /\ ~expanded
     THEN /\ InFlight(explains) < MaxRuns
          /\ loading' = TRUE
          /\ error' = << >>
          /\ explains' = Inc(explains, activeTicker)
     ELSE UNCHANGED <<loading, error, explains>>
  /\ UNCHANGED explanation
  /\ UNCHANGED <<dvars, hvars, xvars, avars, lvars, password>>

\* fetchExplanation(ticker) resolves (line 31), then finally (line 35)
ExplainResolve(t) ==
  /\ explains[t] > 0
  /\ explanation' = << t >>
  /\ loading' = FALSE
  /\ explains' = Dec(explains, t)
  /\ UNCHANGED <<error, expanded>>
  /\ UNCHANGED <<dvars, hvars, xvars, avars, lvars, password>>

\* fetchExplanation(ticker) rejects (line 33), then finally (line 35)
ExplainReject(t) ==
  /\ explains[t] > 0
  /\ error' = << ExplainFailed >>
  /\ loading' = FALSE
  /\ explains' = Dec(explains, t)
  /\ UNCHANGED <<explanation, expanded>>
  /\ UNCHANGED <<dvars, hvars, xvars, avars, lvars, password>>

PanelInit ==
  /\ PageIdle
  /\ menu = {}
  /\ ExecIdle
  /\ OthersIdle

PanelNext ==
  \/ \E t \in Tickers : PropTicker(t)
  \/ \E p \in { << >> } \cup { << t >> : t \in Tickers } : PropPrediction(p)
  \/ Toggle
  \/ \E t \in Tickers : ExplainResolve(t)
  \/ \E t \in Tickers : ExplainReject(t)

PanelSpec == PanelInit /\ [][PanelNext]_vars

\* ----------------------------------------------------------- AdminPanel
\* src/app/frontend/src/components/AdminPanel.jsx: the password gate.
\* The server answers 200 to the admin password and 401 to any other
\* (line 36); any request can also fail without a response.
Accepts(p) == p = AdminPwd

\* fetchSubscribers up to its await (lines 50-52), as the effect on
\* [unlocked] calls it once the gate has opened (lines 25-27)
ListStart(b, p) == Inc(b, << p, "list" >>)

\* the gate's input (line 113)
TypePassword(p) ==
  /\ ~unlocked
  /\ p # passwordInput
  /\ passwordInput' = p
  /\ passwordError' = FALSE
  /\ UNCHANGED <<unlocked, admin_pwd, checks, password, loading, error>>
  /\ UNCHANGED <<hvars, xvars, dvars, pvars, lvars>>

\* Enter or the button: checkPassword up to its await (lines 33-35)
CheckPassword ==
  /\ ~unlocked
  /\ InFlight(checks) < MaxRuns
  /\ checks' = Inc(checks, << passwordInput, "check" >>)
  /\ UNCHANGED <<unlocked, passwordInput, passwordError, admin_pwd>>
  /\ UNCHANGED <<password, loading, error>>
  /\ UNCHANGED <<hvars, xvars, dvars, pvars, lvars>>

\* 200 (lines 36-40), then the effect on [unlocked]
CheckOk(p) ==
  /\ checks[<< p, "check" >>] > 0
  /\ Accepts(p)
  /\ admin_pwd' = << p >>
  /\ password' = p
  /\ unlocked' = TRUE
  /\ passwordError' = FALSE
  /\ IF unlocked
     THEN /\ checks' = Dec(checks, << p, "check" >>)
          /\ UNCHANGED loading
     ELSE /\ checks' = ListStart(Dec(checks, << p, "check" >>), p)
          /\ loading' = TRUE
  /\ UNCHANGED <<passwordInput, error>>
  /\ UNCHANGED <<hvars, xvars, dvars, pvars, lvars>>

Check401Unlocks(p) ==
  /\ checks[<< p, "check" >>] > 0
  /\ ~Accepts(p)
  /\ passwordError' = TRUE
  /\ passwordInput' = ""
  /\ unlocked' = TRUE
  /\ checks' = Dec(checks, << p, "check" >>)
  /\ UNCHANGED <<admin_pwd, password, loading, error>>
  /\ UNCHANGED <<hvars, xvars, dvars, pvars, lvars>>

\* 401 (lines 41-45)
Check401(p) ==
  /\ checks[<< p, "check" >>] > 0
  /\ ~Accepts(p)
  /\ passwordError' = TRUE
  /\ passwordInput' = ""
  /\ checks' = Dec(checks, << p, "check" >>)
  /\ UNCHANGED <<unlocked, admin_pwd, password, loading, error>>
  /\ UNCHANGED <<hvars, xvars, dvars, pvars, lvars>>

\* any other failure: the catch block does nothing (line 42)
CheckFail(p) ==
  /\ checks[<< p, "check" >>] > 0
  /\ checks' = Dec(checks, << p, "check" >>)
  /\ UNCHANGED <<unlocked, passwordInput, passwordError, admin_pwd>>
  /\ UNCHANGED <<password, loading, error>>
  /\ UNCHANGED <<hvars, xvars, dvars, pvars, lvars>>

\* the refresh button (line 144): fetchSubscribers
RefreshList ==
  /\ unlocked
  /\ InFlight(checks) < MaxRuns
  /\ loading' = TRUE
  /\ checks' = ListStart(checks, password)
  /\ UNCHANGED <<unlocked, passwordInput, passwordError, admin_pwd>>
  /\ UNCHANGED <<password, error>>
  /\ UNCHANGED <<hvars, xvars, dvars, pvars, lvars>>

\* fetchSubscribers settles either way: finally (lines 53-58)
ListSettle(p) ==
  /\ checks[<< p, "list" >>] > 0
  /\ loading' = FALSE
  /\ checks' = Dec(checks, << p, "list" >>)
  /\ UNCHANGED <<unlocked, passwordInput, passwordError, admin_pwd>>
  /\ UNCHANGED <<password, error>>
  /\ UNCHANGED <<hvars, xvars, dvars, pvars, lvars>>

\* logout (lines 90-94); the effect on [unlocked] finds it false
Logout ==
  /\ unlocked
  /\ admin_pwd' = << >>
  /\ password' = ""
  /\ unlocked' = FALSE
  /\ UNCHANGED <<passwordInput, passwordError, checks, loading, error>>
  /\ UNCHANGED <<hvars, xvars, dvars, pvars, lvars>>

\* the page is loaded again: fresh state, nothing in flight, then the two
\* mount effects (lines 17-27); sessionStorage outlives the page
Reload ==
  /\ passwordInput' = ""
  /\ passwordError' = FALSE
  /\ IF admin_pwd # << >>
     THEN /\ password' = admin_pwd[1]
          /\ unlocked' = TRUE
          /\ loading' = TRUE
          /\ checks' = ListStart([k \in AdminKeys |-> 0], admin_pwd[1])
     ELSE /\ password' = ""
          /\ unlocked' = FALSE
          /\ loading' = FALSE
          /\ checks' = [k \in AdminKeys |-> 0]
  /\ UNCHANGED <<admin_pwd, error>>
  /\ UNCHANGED <<hvars, xvars, dvars, pvars, lvars>>

AdminInit ==
  /\ PageIdle
  /\ menu = {}
  /\ ExecIdle
  /\ OthersIdle

AdminNext ==
  \/ \E p \in Passwords \cup {""} : TypePassword(p)
  \/ CheckPassword
  \/ \E p \in Passwords \cup {""} : CheckOk(p)
  \/ \E p \in Passwords \cup {""} : Check401(p)
  \/ \E p \in Passwords \cup {""} : CheckFail(p)
  \/ RefreshList
  \/ \E p \in Passwords \cup {""} : ListSettle(p)
  \/ Logout
  \/ Reload

AdminSpec == AdminInit /\ [][AdminNext]_vars

\* ------------------------------------------------------------ LoginPage
\* src/unnamed/part_003 lines 286-320.  supabase answers by the account:
\* an admin, a user without the role, and credentials it does not know.
AdminRoute   == "/ts-ops-7x9k"
AccessDenied == << "Access denied. Admin only." >>
AuthMessage  == << "Invalid login credentials" >>
Role(e)      == IF e = "admin@ts" THEN << "admin" >> ELSE << >>
AuthError(e) == IF e = "nobody@ts" THEN AuthMessage ELSE << >>

\* the two inputs (lines 334, 347)
SetEmail(e) ==
  /\ route = "/login"
  /\ e # email
  /\ email' = e
  /\ UNCHANGED <<session, granted, route, logins, password, loading, error>>
  /\ UNCHANGED <<hvars, xvars, dvars, pvars, avars>>

SetPassword(p) ==
  /\ route = "/login"
  /\ p # password
  /\ password' = p
  /\ UNCHANGED <<lvars, loading, error>>
  /\ UNCHANGED <<hvars, xvars, dvars, pvars, avars>>

\* submit with a field empty returns at once (line 294)
LoginBlank ==
  /\ route = "/login"
  /\ email = "" \/ password = ""
  /\ UNCHANGED vars

\* submit up to the await of signInWithPassword (lines 293-300); the Enter
\* key submits while an earlier call is in flight
LoginSubmit ==
  /\ route = "/login"
  /\ email # "" /\ password # ""
  /\ InFlight(logins) < MaxRuns
  /\ loading' = TRUE
  /\ error' = << >>
  /\ logins' = Inc(logins, << email, "signIn" >>)
  /\ UNCHANGED <<email, session, granted, route, password>>
  /\ UNCHANGED <<hvars, xvars, dvars, pvars, avars>>

\* authError (lines 302-306)
SignInError(e) ==
  /\ logins[<< e, "signIn" >>] > 0
  /\ AuthError(e) # << >>
  /\ error' = << AuthError(e) >>
  /\ loading' = FALSE
  /\ logins' = Dec(logins, << e, "signIn" >>)
  /\ UNCHANGED <<email, session, granted, route, password>>
  /\ UNCHANGED <<hvars, xvars, dvars, pvars, avars>>

SignInNonAdminGrants(e) ==
  /\ logins[<< e, "signIn" >>] > 0
  /\ AuthError(e) = << >>
  /\ Role(e) # << "admin" >>
  /\ session' = << e >>
  /\ error' = << AccessDenied >>
  /\ granted' = granted \cup { e }
  /\ logins' = Inc(Dec(logins, << e, "signIn" >>), << e, "signOut" >>)
  /\ UNCHANGED <<email, route, password, loading>>
  /\ UNCHANGED <<hvars, xvars, dvars, pvars, avars>>

\* signed in without the role (lines 309-312), up to the await of signOut
SignInNonAdmin(e) ==
  /\ logins[<< e, "signIn" >>] > 0
  /\ AuthError(e) = << >>
  /\ Role(e) # << "admin" >>
  /\ session' = << e >>
  /\ error' = << AccessDenied >>
  /\ logins' = Inc(Dec(logins, << e, "signIn" >>), << e, "signOut" >>)
  /\ UNCHANGED <<email, granted, route, password, loading>>
  /\ UNCHANGED <<hvars, xvars, dvars, pvars, avars>>

\* signOut has returned (lines 313-314)
SignOutDone(e) ==
  /\ logins[<< e, "signOut" >>] > 0
  /\ session' = << >>
  /\ loading' = FALSE
  /\ logins' = Dec(logins, << e, "signOut" >>)
  /\ UNCHANGED <<email, granted, route, password, error>>
  /\ UNCHANGED <<hvars, xvars, dvars, pvars, avars>>

\* signed in as admin (lines 318-319): onLogin(data.session), navigate
SignInAdmin(e) ==
  /\ logins[<< e, "signIn" >>] > 0
  /\ AuthError(e) = << >>
  /\ Role(e) = << "admin" >>
  /\ session' = << e >>
  /\ granted' = granted \cup { e }
  /\ route' = AdminRoute
  /\ logins' = Dec(logins, << e, "signIn" >>)
  /\ UNCHANGED <<email, password, loading, error>>
  /\ UNCHANGED <<hvars, xvars, dvars, pvars, avars>>

LoginInit ==
  /\ PageIdle
  /\ menu = {}
  /\ ExecIdle
  /\ OthersIdle

LoginNext ==
  \/ \E e \in Emails \cup {""} : SetEmail(e)
  \/ \E p \in Passwords \cup {""} : SetPassword(p)
  \/ LoginBlank
  \/ LoginSubmit
  \/ \E e \in Emails : SignInError(e)
  \/ \E e \in Emails : SignInNonAdmin(e)
  \/ \E e \in Emails : SignOutDone(e)
  \/ \E e \in Emails : SignInAdmin(e)

LoginSpec == LoginInit /\ [][LoginNext]_vars

\* ======================================================== the properties
\* what the step just taken worked on, when it was a pass of the for loop
\* that dispatched a message of the given status
Before      == last[1]
LastMsg     == ParseLine(Before.line).val
LastIs(st)  == /\ last # << >>
               /\ Dispatched(Before.line)
               /\ Has(LastMsg, "status")
               /\ LastMsg.status = st
SameReact   == /\ brief = Before.brief
               /\ loading = Before.loading
               /\ error = Before.error
               /\ steps = Before.steps

\* the latest submit has returned: its stream was closed or has failed
Returned    == latest # 0 /\ pc[latest] = "idle"
BriefShown  == /\ brief # << >>
               /\ error = << >>
               /\ \A k \in StepIds : steps[k].status # "error"
ErrorShown  == /\ error # << >> \/ \E k \in StepIds : steps[k].status = "error"
               /\ brief = << >>

\* C1: once the stream of the submitted hypothesis has ended, the page
\* shows the brief or shows an error, never both and never neither, and is
\* no longer loading.
C1_ExactlyOneEndState ==
  Returned => /\ BriefShown \/ ErrorShown
              /\ ~(BriefShown /\ ErrorShown)
              /\ ~loading

\* the messages of the frames of a text, as one chunk yields them
RECURSIVE ParsedOf(_)
ParsedOf(ls) ==
  IF ls = << >> THEN << >>
  ELSE (IF Parsed(Head(ls)) THEN << ParseLine(Head(ls)) >> ELSE << >>)
       \o ParsedOf(Tail(ls))
OneChunk(bytes) == ParsedOf(Front(Split(Decode(<< >>, bytes).out)))

\* C2: however the bytes received so far were cut into chunks, the
\* messages parsed so far, followed by those of the frames the for loop
\* still holds, are the messages of the same bytes arriving as one chunk.
C2_SplitInvariance ==
  \A r \in Runs :
    menu \in AuditMenus /\ pc[r] # "idle"
      => msgs[r] \o ParsedOf(lines[r]) = OneChunk(got[r])

\* two frames, cut inside a frame by some read, both parsed
C2_Witness ==
  \E r \in Runs :
    /\ menu \in AuditMenus
    /\ torn[r]
    /\ got[r] = RunningFrame(4) \o RunningFrame(4)
    /\ Len(msgs[r]) = 2

\* C4: after a running event for step k is processed, step k is running
\* and its detail is empty.
C4_RunningMarksStep ==
  LastIs("running") /\ StepOf(LastMsg) \in StepIds
    => steps[StepOf(LastMsg)] = [status |-> "running", detail |-> << >>]

\* a running event has cleared the detail a done event had left
C4_Witness ==
  /\ LastIs("running")
  /\ StepOf(LastMsg) \in StepIds
  /\ Before.steps[StepOf(LastMsg)].detail # << >>
  /\ steps[StepOf(LastMsg)].detail = << >>

\* the summary fields of a done event
SummaryFields ==
  { "ticker", "price", "base_rate", "risks_found", "catalysts_found" }
Only(msg, f) == DOMAIN msg \cap SummaryFields = {f}

\* C5: after a done event for step k is processed, step k is done; its
\* detail is empty when the event carries no summary field, and is the
\* text for the field when it carries one.
C5_DoneMarksStep ==
  LastIs("done") /\ StepOf(LastMsg) \in StepIds
    => LET st == steps[StepOf(LastMsg)] IN
       /\ st.status = "done"
       /\ DOMAIN LastMsg \cap SummaryFields = {} => st.detail = << >>
       /\ Only(LastMsg, "ticker") /\ LastMsg.ticker = << "KO" >>
            => st.detail = << "-> ", "KO" >>
       /\ Only(LastMsg, "price") /\ LastMsg.price = 61537
            => st.detail = << "-> $", "6", "1", ".", "5", "4", " . RSI ",
                              "5", "5", ".", "3" >>
       /\ Only(LastMsg, "base_rate") /\ LastMsg.base_rate = 12500
            => st.detail = << "-> base rate ", "1", "2", ".", "5", "%" >>
       /\ Only(LastMsg, "risks_found") /\ LastMsg.risks_found = 3000
            => st.detail = << "-> ", "3", " risks identified" >>
       /\ Only(LastMsg, "catalysts_found") /\ LastMsg.catalysts_found = 2000
            => st.detail = << "-> ", "2", " catalysts identified" >>

\* a done event without summary field has emptied a detail
C5_Witness ==
  /\ LastIs("done")
  /\ DOMAIN LastMsg \cap SummaryFields = {}
  /\ Before.steps[1].detail # << >>
  /\ steps[1] = [status |-> "done", detail |-> << >>]

\* C6: after an error event with step k > 0 is processed, loading is false
\* and step k is in error with the event's message as its detail.
C6_StepError ==
  LastIs("error") /\ StepOf(LastMsg) > 0
    => /\ ~loading
       /\ StepOf(LastMsg) \in StepIds
            => /\ steps[StepOf(LastMsg)].status = "error"
               /\ Has(LastMsg, "message")
                    => steps[StepOf(LastMsg)].detail = LastMsg.message

\* a step error with a message, received while loading
C6_Witness ==
  /\ LastIs("error")
  /\ StepOf(LastMsg) = 4
  /\ Before.loading
  /\ steps[4] = [status |-> "error", detail |-> << "timeout" >>]
  /\ ~loading

\* C7 as claimed: after an error event with step 0 the page error is the
\* event's message, or "Analysis failed." when the event has none; loading
\* is false and no step has changed.
C7_PipelineErrorAsClaimed ==
  LastIs("error") /\ StepOf(LastMsg) = 0
    => /\ error = << IF Has(LastMsg, "message") THEN LastMsg.message
                     ELSE << "Analysis failed." >> >>
       /\ ~loading
       /\ steps = Before.steps

\* C7: after an error event with step 0 the page error is the event's
\* message, or "Analysis failed." when the event has none or an empty one;
\* loading is false and no step has changed.
C7_PipelineError ==
  LastIs("error") /\ StepOf(LastMsg) = 0
    => /\ error = << IF Has(LastMsg, "message") /\ LastMsg.message # << >>
                     THEN LastMsg.message
                     ELSE << "Analysis failed." >> >>
       /\ ~loading
       /\ steps = Before.steps

\* a step-0 error with an empty message, received while loading
C7_Witness ==
  /\ LastIs("error")
  /\ StepOf(LastMsg) = 0
  /\ Has(LastMsg, "message") /\ LastMsg.message = << >>
  /\ Before.loading
  /\ error = << << "Analysis failed." >> >>

\* C8: a complete event stores its brief and ends loading, and no frame
\* that the same stream delivers after it changes the page.
C8_StopsListening ==
  /\ LastIs("complete") /\ Has(LastMsg, "brief")
       => brief = << LastMsg.brief >> /\ ~loading
  /\ last # << >> /\ Before.seen => SameReact

\* C9: a step that is done or in error keeps that status through every
\* later event of the stream.
C9_StepStatusMonotonic ==
  last # << >>
    => \A k \in StepIds :
         Before.steps[k].status \in {"done", "error"}
           => steps[k].status = Before.steps[k].status

\* C10: a frame with the prefix whose body is not JSON changes nothing on
\* the page, and the for loop goes on with the frames after it, the reader
\* with the next read.
BadBody(line) == StartsWith(line, DataPrefix) /\ ~ParseLine(line).ok
C10_BadFrameSkipped ==
  last # << >> /\ BadBody(Before.line)
    => /\ SameReact
       /\ lines[Before.run] = Before.rest
       /\ pc[Before.run] = IF Before.rest = << >> THEN "read" ELSE "loop"

\* the frame after a bad frame has been dispatched
C10_Witness ==
  \E r \in Runs :
    /\ got[r] = Frame(<< "{", "s:running" >>) \o RunningFrame(4)
    /\ LastIs("running")
    /\ Before.run = r
    /\ steps[4].status = "running"

\* C11: a frame without the prefix changes nothing on the page and sets
\* no error, and the for loop goes on with the frames after it, the reader
\* with the next read.
C11_UnprefixedIgnored ==
  last # << >> /\ ~StartsWith(Before.line, DataPrefix)
    => /\ SameReact
       /\ lines[Before.run] = Before.rest
       /\ pc[Before.run] = IF Before.rest = << >> THEN "read" ELSE "loop"

\* the frame after a comment frame has been dispatched
C11_Witness ==
  \E r \in Runs :
    /\ got[r] = << ":", " ", "ping", "\n", "\n" >> \o RunningFrame(4)
    /\ LastIs("running")
    /\ Before.run = r
    /\ error = << >>
    /\ steps[4].status = "running"

\* C12: an event for step k leaves the status and the detail of every
\* other step as they were, and a done event marks its own step done, in
\* whatever order the events of steps 4 and 5 arrive.
C12_OnlyOwnStep ==
  last # << >> /\ Dispatched(Before.line)
    => /\ \A j \in StepIds :
            j # StepOf(LastMsg) => steps[j] = Before.steps[j]
       /\ LastIs("done") /\ StepOf(LastMsg) \in StepIds
            => steps[StepOf(LastMsg)].status = "done"

\* bull-case was done first, and the done event of bear-case went to step 4
C12_Witness ==
  /\ LastIs("done")
  /\ StepOf(LastMsg) = 4
  /\ Before.steps[5].status = "done"
  /\ Before.steps[4].status = "idle"
  /\ steps[5] = Before.steps[5]
  /\ steps[4].status = "done"

\* C17: a submit that is accepted leaves the page loading, without error,
\* without brief and with every step idle with an empty detail, before the
\* fetch of the new run is started.
C17_FreshRun ==
  [][(\E r \in Runs : pc[r] = "idle" /\ pc'[r] = "fetch")
       => /\ loading'
          /\ error' = << >>
          /\ brief' = << >>
          /\ steps' = STEPS]_vars

\* a second submit while the stream of the first, which has delivered its
\* brief, is still open
C17_Witness ==
  /\ latest = 2
  /\ pc[2] = "fetch"
  /\ pc[1] # "idle"
  /\ seen[1]
  /\ loading
  /\ brief = << >>
  /\ steps = STEPS

\* C20: between reads the buffer holds no delimiter and is the text
\* received after the last delimiter; the frames still to be handled are
\* the last frames received, and every frame before them was handled once.
C20_BufferInvariant ==
  \A r \in Runs :
    menu \in AuditMenus /\ pc[r] \in {"read", "loop"}
      => LET all == Split(Decode(<< >>, got[r]).out) IN
         /\ \A i \in 1..Len(buffer[r]) : ~DelimAt(buffer[r], i)
         /\ buffer[r] = Last(all)
         /\ Len(lines[r]) <= Len(Front(all))
         /\ lines[r] = SubSeq(Front(all), Len(Front(all)) - Len(lines[r]) + 1,
                              Len(Front(all)))
         /\ Len(msgs[r]) + Len(ParsedOf(lines[r])) = Len(ParsedOf(Front(all)))

\* a frame has been handled and the start of the next one is in the buffer
C20_Witness ==
  \E r \in Runs :
    /\ menu \in AuditMenus
    /\ pc[r] = "read"
    /\ Len(msgs[r]) = 1
    /\ buffer[r] # << >>
    /\ got[r] = RunningFrame(4) \o SubSeq(RunningFrame(4), 1, 4)

\* C21: while the page is loading, the stream of the latest submit is
\* still requested or read.
C21_LoadingMeansOpen ==
  loading => latest # 0 /\ pc[latest] # "idle"

\* C22: a frame of a stream that is not the one of the latest submit
\* changes nothing on the page.
C22_RunsIndependent ==
  last # << >> /\ Before.run # latest => SameReact

\* what the catch block can set as error
CaughtErrors ==
  { << CaughtMessage(m) >> : m \in NetMessages }
    \cup { << << "HTTP " >> \o IntStr(BadStatus) >> }

\* C23: when the reader reports done, the text left in the buffer is
\* dropped: brief and steps stay as they are, and so do error and loading.
C23_TailDiscarded ==
  [][\A r \in Runs :
       pc[r] = "read" /\ pc'[r] = "idle" /\ wire[r] = << >>
         => /\ brief' = brief
            /\ steps' = steps
            /\ \/ error' = error /\ loading' = loading
               \/ error' \in CaughtErrors /\ ~loading']_vars

\* the whole body was read and a complete event without its delimiter is
\* what the buffer holds
C23_Witness ==
  \E r \in Runs :
    /\ pc[r] = "read"
    /\ cur = 0
    /\ wire[r] = << >>
    /\ buffer[r] = DataPrefix \o Obj(<< "s:complete", "brief:KO" >>)
    /\ msgs[r] = << >>
    /\ brief = << >>
    /\ loading

\* C24: when an invocation ends in the catch block (fetch rejected,
\* status not ok, read rejected), error is the message or the fixed text,
\* loading is false, brief and steps are kept, and nothing is left to
\* process for it.
C24_TransportFailure ==
  [][\A r \in Runs :
       /\ pc'[r] = "idle"
       /\ \/ pc[r] = "fetch"
          \/ pc[r] = "read" /\ (error' # error \/ loading' # loading)
       => /\ error' \in CaughtErrors
          /\ ~loading'
          /\ brief' = brief
          /\ steps' = steps
          /\ wire'[r] = << >>
          /\ lines'[r] = << >>]_vars

\* a read was rejected after the brief had been stored
C24_Witness ==
  /\ latest # 0
  /\ pc[latest] = "idle"
  /\ brief # << >>
  /\ error = << << "Failed to fetch" >> >>
  /\ ~loading

Stopped     == xrun \in {"complete", "error", "cancelled"}
Terminals   == { i \in 1..Len(xout) : Terminal(xout[i]) }

\* C3 as claimed: a run that has stopped has emitted exactly one terminal
\* event, and it is the last event.
C3_ExactlyOneTerminal ==
  Stopped => Terminals = { Len(xout) } /\ xout # << >>

\* C3: a run emits at most one terminal event and nothing after it; a run
\* that stopped without the consumer having disconnected has emitted one.
C3_AtMostOneTerminal ==
  /\ Terminals \subseteq { Len(xout) }
  /\ xrun \in {"complete", "error"} => Terminals = { Len(xout) }
  /\ xrun \in {"running", "cancelled", "idle"} => Terminals = {}

\* the bear-case stage failed while bull-case was in flight, and the result
\* of bull-case was discarded after the terminal event
C3_Witness ==
  /\ xrun = "error"
  /\ xstage[4] = "error"
  /\ xstage[5] = "dropped"
  /\ Terminals = { Len(xout) }

\* C13: a running event of a stage comes after the done events of all the
\* stages it depends on.
C13_DepsDoneFirst ==
  \A i \in 1..Len(xout) :
    xout[i].status = "running"
      => \A d \in Deps(xout[i].step) :
           \E j \in 1..(i - 1) : xout[j] = Event("done", d)

\* synthesize has started
C13_Witness ==
  /\ xstage[Synthesize] = "running"
  /\ xout[Len(xout)] = Event("running", Synthesize)
  /\ Len(xout) = 11

NoComplete == \A i \in 1..Len(xout) : xout[i].status # "complete"

\* C14: once a stage has failed the run stays failed: no event is emitted
\* any more, no stage is started, the failed stage stays failed, and no
\* complete event was or is emitted.
C14_FailureIsFatal ==
  [][/\ xrun' = "error" => NoComplete'
     /\ xrun = "error"
          => /\ xrun' = "error"
             /\ xout' = xout
             /\ \A k \in StepIds :
                  /\ xstage'[k] = "running" => xstage[k] = "running"
                  /\ xstage[k] = "error" => xstage'[k] = "error"]_vars

\* bull-case has failed while bear-case was in flight; nothing but the
\* frames of the events up to the error was written
C14_Witness ==
  /\ xrun = "error"
  /\ xstage[5] = "error"
  /\ xstage[4] = "dropped"
  /\ xstage[Synthesize] = "idle"
  /\ xout[Len(xout)] = Event("error", 5)
  /\ Len(xwire) = 2 * Len(xout)

\* C15: a run with a step-0 error has emitted this event only, and no
\* stage after parse has left idle.
C15_ParseFailureAlone ==
  (\E i \in 1..Len(xout) : xout[i].status = "error" /\ xout[i].step = 0)
    => /\ xout = << Event("error", 0) >>
       /\ xrun = "error"
       /\ \A k \in StepIds \ {1} : xstage[k] = "idle"

\* the request did not parse and the frame of the error is written
C15_Witness ==
  /\ xstage[1] = "error"
  /\ xout = << Event("error", 0) >>
  /\ xwire = << Piece(1, "head"), Piece(1, "tail") >>

\* C18: the feasibility_score of a complete event is in 0..100 and is the
\* sum of the three sub-scores, none above its cap, clamped to 0..100.
C18_ScoreBounded ==
  \A i \in 1..Len(xout) :
    xout[i].status = "complete"
      => /\ xout[i].score \in 0..100
         /\ xout[i].parts[1] <= CapHistory
         /\ xout[i].parts[2] <= CapTechnical
         /\ xout[i].parts[3] <= CapRealism
         /\ LET sum == xout[i].parts[1] + xout[i].parts[2] + xout[i].parts[3]
            IN  xout[i].score = IF sum < 0 THEN 0
                                ELSE IF sum > 100 THEN 100 ELSE sum

\* a brief whose technical sub-score was capped and whose sum was clamped
C18_Witness ==
  /\ xrun = "complete"
  /\ xout[Len(xout)].parts = << -20, CapTechnical, -20 >>
  /\ xout[Len(xout)].score = 0

\* C19: the response body is the frames of the events in the order of
\* emission, each written whole before the next one is started.
C19_FramesWhole ==
  \A i \in 1..Len(xwire) :
    xwire[i] = Piece((i + 1) \div 2, IF i % 2 = 1 THEN "head" ELSE "tail")

\* bear-case and bull-case ran at the same time, bull-case was done first,
\* and both frames are written
C19_Witness ==
  /\ Len(xout) >= 10
  /\ xout[7].status = "running" /\ xout[8].status = "running"
  /\ xout[9] = Event("done", 5)
  /\ xout[10] = Event("done", 4)
  /\ Len(xwire) = 20

\* ---------------------------------------------------- synchronous page
SyncSettled == latest = 1 /\ pc[1] = "idle"

\* C16: once the request has settled the page is not loading and has
\* either the brief or an error, not both and not neither; a brief is the
\* one of the complete event of the run.
C16_SyncOneResult ==
  SyncSettled
    => /\ ~loading
       /\ (brief # << >>) # (error # << >>)
       /\ brief # << >>
            => xrun = "complete" /\ brief = << BriefOf(xout[Len(xout)]) >>

\* the run failed at bear-case and the page shows the detail of the error
C16_Witness ==
  /\ SyncSettled
  /\ xstage[4] = "error"
  /\ error = << << "Could not parse hypothesis" >> >>
  /\ brief = << >>
  /\ ~loading

\* ------------------------------------------------------------ dashboard
\* C26: once no request of loadAll is in flight and none has failed, the
\* price data, the sentiment data, the model info and the prediction shown
\* are those of the active ticker.
C26_CurrentTickerShown ==
  InFlight(loads) = 0 /\ error = << >>
    => /\ priceData = << activeTicker >>
       /\ sentData = << activeTicker >>
       /\ modelInfo = << activeTicker >>
       /\ prediction = << activeTicker >>

\* ----------------------------------------------------- ExplanationPanel
\* C27: a change of ticker leaves the panel without explanation and error,
\* not loading and collapsed; an explanation held is one for the current
\* ticker; a request is issued only by a panel that is expanded and has a
\* prediction.
C27_PanelFollowsTicker ==
  [][/\ activeTicker' # activeTicker
          => /\ explanation' = << >>
             /\ error' = << >>
             /\ ~loading'
             /\ ~expanded'
     /\ explanation' # << >> => explanation' = << activeTicker' >>
     /\ InFlight(explains') > InFlight(explains)
          => expanded' /\ prediction' # << >>]_vars

\* ----------------------------------------------------------- AdminPanel
\* C28: the gate opens only when a check of the admin password succeeds,
\* which stores that password, or when the page is loaded with a stored
\* password; a check that fails leaves the gate and the store as they
\* were; logout leaves the gate locked, the password empty and nothing
\* stored.
CheckLeaves(p) == checks'[<< p, "check" >>] < checks[<< p, "check" >>]
C28_GateOpensOnSuccess ==
  [][/\ \A p \in Passwords \cup {""} :
          CheckLeaves(p) =>
            \/ /\ Accepts(p)
               /\ unlocked'
               /\ password' = p
               /\ admin_pwd' = << p >>
            \/ UNCHANGED <<unlocked, password, admin_pwd>>
     /\ \A p \in Passwords \cup {""} :
          CheckLeaves(p) /\ ~Accepts(p) =>
            UNCHANGED <<unlocked, password, admin_pwd>>
     /\ unlocked' /\ ~unlocked =>
          \/ \E p \in Passwords : CheckLeaves(p) /\ admin_pwd' = << p >>
          \/ admin_pwd # << >> /\ password' = admin_pwd[1]
     /\ admin_pwd' # admin_pwd /\ admin_pwd' # << >> =>
          \E p \in Passwords : CheckLeaves(p) /\ Accepts(p)
     /\ unlocked /\ ~unlocked' =>
          password' = "" /\ admin_pwd' = << >>]_vars

\* the gate is open after one check has succeeded and another has failed
C28_Witness ==
  /\ unlocked
  /\ password = AdminPwd
  /\ admin_pwd = << AdminPwd >>
  /\ passwordError
  /\ InFlight(checks) = 0

\* ------------------------------------------------------------ LoginPage
\* C29: onLogin and navigate happen only for a sign-in without error whose
\* role is admin; an auth error passes nothing up and ends loading; a user
\* without the role gets the access-denied error, is signed out, and then
\* loading ends, with onLogin never called.
SignInLeaves(e)  == logins'[<< e, "signIn" >>] < logins[<< e, "signIn" >>]
SignOutLeaves(e) == logins'[<< e, "signOut" >>] < logins[<< e, "signOut" >>]
C29_OnlyAdminPassesUp ==
  [][/\ granted' # granted \/ route' # route =>
          \E e \in Emails :
            /\ SignInLeaves(e)
            /\ AuthError(e) = << >>
            /\ Role(e) = << "admin" >>
            /\ granted' = granted \cup { e }
            /\ route' = AdminRoute
     /\ \A e \in Emails :
          SignInLeaves(e) /\ AuthError(e) # << >> =>
            /\ error' = << AuthError(e) >>
            /\ ~loading'
            /\ UNCHANGED <<granted, route, session>>
     /\ \A e \in Emails :
          SignInLeaves(e) /\ AuthError(e) = << >> /\ Role(e) # << "admin" >> =>
            /\ error' = << AccessDenied >>
            /\ logins'[<< e, "signOut" >>] = logins[<< e, "signOut" >>] + 1
            /\ UNCHANGED <<granted, route>>
     /\ \A e \in Emails :
          SignOutLeaves(e) =>
            /\ session' = << >>
            /\ ~loading'
            /\ UNCHANGED <<granted, route>>]_vars

\* a user without the role has been turned away and signed out
C29_Witness ==
  /\ email = "user@ts"
  /\ error = << AccessDenied >>
  /\ ~loading
  /\ session = << >>
  /\ granted = {}
  /\ route = "/login"
  /\ InFlight(logins) = 0

====
